---- MODULE Spec2Model ----
(***************************************************************************)
(* Model of fuzz.py: the MLForensics fuzz harness.                         *)
(*                                                                         *)
(* FuzzReporter (log_test, generate_report), the five fuzz_* campaigns of  *)
(* Fuzzer, run_all_fuzzing, the import guard and main.  The five target    *)
(* operations (py_parser, mining, lint_engine) are external: each call     *)
(* either returns or raises, chosen by the environment.                    *)
(*                                                                         *)
(* Text is a sequence of one-character strings, so that slicing and        *)
(* str() are computed and not assumed.                                     *)
(***************************************************************************)
EXTENDS Integers, Sequences, FiniteSets, TLC

(***************************************************************************)
(* Bounds of the model.                                                    *)
(***************************************************************************)
\* largest iteration count passed to run_all_fuzzing
MaxIter == 2
\* most exceptions the target operations raise in one run
MaxFaults == 1
\* most log_test calls made on a reporter driven through its interface
MaxApiTests == 3
\* how far beyond the truncation limit the longest interface input reaches
ExtraInputLen == 20
\* most generate_report calls made on a reporter driven through its interface
MaxApiReports == 2

(***************************************************************************)
(* Program constants.                                                      *)
(***************************************************************************)
\* str(input_data)[:100]
MaxRender == 100
\* random.randint(0, 100) in generate_random_string
MaxRandLen == 100
\* code[:50] in the input labels
CodeSlice == 50
\* generate_random_string(10) among the names to track
NameLen == 10
\* 123, the wrong-typed name to track
BadName == 123
\* random.randint(0, 10) source files
MaxPyFiles == 10
\* random.randint(0, 5) non-matching files
MaxOtherFiles == 5
\* random.randint(0, 3) notebook files
MaxIpynb == 3
\* for i in range(5): the non-existent file probes
NumFakeFiles == 5
\* the five campaigns of run_all_fuzzing
NumCampaigns == 5

(***************************************************************************)
(* Text.                                                                   *)
(***************************************************************************)
Min(a, b) == IF a <= b THEN a ELSE b

Max(a, b) == IF a >= b THEN a ELSE b

\* s[:n] for n >= 0
Slice(s, n) == SubSeq(s, 1, Min(Len(s), n))

\* n characters drawn by random.choices: the drawn character is abstracted
RandomText(n) == [k \in 1..n |-> "?"]

Digit(d) == CASE d = 0 -> "0" [] d = 1 -> "1" [] d = 2 -> "2" [] d = 3 -> "3"
              [] d = 4 -> "4" [] d = 5 -> "5" [] d = 6 -> "6" [] d = 7 -> "7"
              [] d = 8 -> "8" [] d = 9 -> "9"

RECURSIVE NatText(_)
NatText(n) == IF n < 10 THEN <<Digit(n)>> ELSE NatText(n \div 10) \o <<Digit(n % 10)>>

\* str(n) of an int
IntText(n) == IF n < 0 THEN <<"-">> \o NatText(0 - n) ELSE NatText(n)

S_file == <<"f", "i", "l", "e", ":", " ">>
S_content == <<",", " ", "c", "o", "n", "t", "e", "n", "t", ":", " ">>
S_name == <<"n", "a", "m", "e", ":", " ">>
S_code == <<",", " ", "c", "o", "d", "e", ":", " ">>
S_d1 == <<"d", "1", ":", " ">>
S_d2 == <<",", " ", "d", "2", ":", " ">>
S_dir == <<"d", "i", "r", ":", " ">>
S_None == <<"N", "o", "n", "e">>
S_nonexistent == <<"/", "n", "o", "n", "e", "x", "i", "s", "t", "e", "n", "t", "/">>
S_py == <<".", "p", "y">>
S_py_files == <<",", " ", "p", "y", "_", "f", "i", "l", "e", "s", ":", " ">>
S_ipynb == <<",", " ", "i", "p", "y", "n", "b", ":", " ">>
S_expected == <<",", " ", "e", "x", "p", "e", "c", "t", "e", "d", ":", " ">>
S_got == <<",", " ", "g", "o", "t", ":", " ">>
S_date1900 == <<"1", "9", "0", "0", "-", "0", "1", "-", "0", "1", " ", "0", "0", ":", "0", "0", ":", "0", "0">>
S_date2100 == <<"2", "1", "0", "0", "-", "1", "2", "-", "3", "1", " ", "0", "0", ":", "0", "0", ":", "0", "0">>
S_2020 == <<"2", "0", "2", "0", "-", "0", "1", "-", "0", "1">>
S_2021 == <<"2", "0", "2", "1", "-", "0", "1", "-", "0", "1">>
S_emptylist == <<"[", "]">>
S_emptydict == <<"{", "}">>
S_nodir == <<"/", "n", "o", "n", "e", "x", "i", "s", "t", "e", "n", "t", "/", "d", "i", "r", "e", "c", "t", "o", "r", "y">>
S_etc == <<".", ".", "/", ".", ".", "/", ".", ".", "/", "e", "t", "c">>
S_devnull == <<"/", "d", "e", "v", "/", "n", "u", "l", "l">>
S_data == <<"d", "a", "t", "a">>
S_test_var == <<"t", "e", "s", "t", "_", "v", "a", "r">>

\* a name tempfile hands out (the eight random characters are abstracted)
TempFileName == <<"/", "t", "m", "p", "/", "t", "m", "p", "k", "3", "x", "9", "q", "2", "a", "b", ".", "p", "y">>
TempDirName == <<"/", "t", "m", "p", "/", "t", "m", "p", "k", "3", "x", "9", "q", "2", "a", "b">>
\* str() of a datetime without and with microseconds
DateText == <<"2", "0", "2", "0", "-", "0", "1", "-", "0", "1", " ", "0", "0", ":", "0", "0", ":", "0", "0">>
NowText == <<"2", "0", "2", "5", "-", "1", "2", "-", "0", "1", " ", "1", "2", ":", "0", "0", ":", "0", "0", ".", "0", "0", "0", "0", "0", "1">>

CodeValid == <<"x", " ", "=", " ", "1", " ", "+", " ", "2">>
CodeLogger == <<"l", "o", "g", "g", "e", "r", ".", "i", "n", "f", "o", "(", "t", "e", "s", "t", "_", "d", "a", "t", "a", ")">>
CodeLoader == <<"i", "m", "p", "o", "r", "t", " ", "j", "s", "o", "n", "\\", "n", "j", "s", "o", "n", ".", "l", "o", "a", "d", "(", "o", "p", "e", "n", "(", "'", "f", "i", "l", "e", ".", "j", "s", "o", "n", "'", ")", ")">>

(***************************************************************************)
(* Python values that reach str(): a str, None or an int.                  *)
(***************************************************************************)
VStr(s) == [t |-> "str", s |-> s, n |-> 0]

VNone == [t |-> "NoneType", s |-> <<>>, n |-> 0]

VInt(n) == [t |-> "int", s |-> <<>>, n |-> n]

VDate(s) == [t |-> "datetime", s |-> s, n |-> 0]

VList == [t |-> "list", s |-> <<>>, n |-> 0]

VDict == [t |-> "dict", s |-> <<>>, n |-> 0]

\* a local variable that has not been assigned
Unbound == [t |-> "unbound", s |-> <<>>, n |-> 0]

\* str(v), as the f-strings and log_test apply it
PyStr(v) == CASE v.t = "str" -> v.s
              [] v.t = "NoneType" -> S_None
              [] v.t = "int" -> IntText(v.n)
              [] v.t = "datetime" -> v.s
              [] v.t = "list" -> S_emptylist
              [] v.t = "dict" -> S_emptydict

(***************************************************************************)
(* Exceptions: the name of the type, "None" for no exception.              *)
(***************************************************************************)
NoError == "None"

\* what a target operation may raise
TargetErrors == {"TypeError"}

\* `if error:` -- an exception instance is true, None is false
Truthy(error) == error # NoError

VARIABLES
  \* FuzzReporter
  test_count, crash_count, bugs_found,
  report,          \* fuzz_report.txt: <<>> while absent, else <<what was written>>
  \* where the program is
  pc, camp, i, iterations,
  \* locals of the running fuzz_* method
  code, args, name_to_track, counts, result, expected, error,
  raising,         \* the exception propagating, NoError if none
  exit_status,     \* the status the process exited with, -1 while it runs
  \* history
  held,            \* temporary files and directories created and not yet released
  called,          \* the target operations called for the current input
  faults,          \* exceptions raised by target operations so far
  log_calls,       \* calls of log_test
  last_logged,     \* method_name of the latest log_test call
  last_len,        \* length of str(input_data) of the latest log_test call
  edge_logged,     \* per campaign, outcomes logged for edge cases
  report_calls,    \* calls of generate_report
  \* the process
  argv,            \* sys.argv[1:]
  modules,         \* py_parser, lint_engine, mining: "unresolved", "loaded" or "missing"
  \* history of the callers of log_test
  chosen,          \* the name to track chosen in the current iteration, Unbound if none
  passed           \* the failed outcomes handed to log_test, in the order of the calls

reporter == <<test_count, crash_count, bugs_found, log_calls, last_logged, last_len>>

locals == <<code, args, name_to_track, counts, result, expected, error>>

vars == <<test_count, crash_count, bugs_found, report, pc, camp, i, iterations,
          code, args, name_to_track, counts, result, expected, error, raising,
          exit_status, held, called, faults, log_calls, last_logged, last_len,
          edge_logged, report_calls, argv, modules, chosen, passed>>

process == <<argv, modules>>

(***************************************************************************)
(* FuzzReporter                                                            *)
(***************************************************************************)
\* a reporter that forgets to cut the rendering of the input
BugInfo_Untruncated(method_name, input_data, err) ==
  [method |-> method_name, input |-> PyStr(input_data), error_type |-> err]

\* the bug_info dict; error_msg and traceback are text of the exception and
\* are carried by its type
BugInfo(method_name, input_data, err) ==
  [method |-> method_name,
   input |-> Slice(PyStr(input_data), MaxRender),
   error_type |-> err]

\* a reporter that counts a failed outcome as a crash only
LogTest_Miscount(method_name, input_data, err) ==
  /\ IF Truthy(err)
       THEN /\ crash_count' = crash_count + 1
            /\ bugs_found' = Append(bugs_found, BugInfo(method_name, input_data, err))
            /\ UNCHANGED test_count
       ELSE /\ test_count' = test_count + 1
            /\ UNCHANGED <<crash_count, bugs_found>>
  /\ log_calls' = log_calls + 1
  /\ last_logged' = method_name
  /\ last_len' = Len(PyStr(input_data))

\* a reporter that puts the newest bug first
LogTest_Prepends(method_name, input_data, err) ==
  /\ test_count' = test_count + 1
  /\ IF Truthy(err)
       THEN /\ crash_count' = crash_count + 1
            /\ bugs_found' = <<BugInfo(method_name, input_data, err)>> \o bugs_found
       ELSE UNCHANGED <<crash_count, bugs_found>>
  /\ log_calls' = log_calls + 1
  /\ last_logged' = method_name
  /\ last_len' = Len(PyStr(input_data))

LogTest(method_name, input_data, err) ==
  /\ test_count' = test_count + 1
  /\ IF Truthy(err)
       THEN /\ crash_count' = crash_count + 1
            /\ bugs_found' = Append(bugs_found, BugInfo(method_name, input_data, err))
       ELSE UNCHANGED <<crash_count, bugs_found>>
  /\ log_calls' = log_calls + 1
  /\ last_logged' = method_name
  /\ last_len' = Len(PyStr(input_data))

\* the caller's record of a call of log_test that carries an exception
Handed(method_name, input_data, err) ==
  passed' = IF err # NoError
              THEN Append(passed, [method |-> method_name,
                                   input |-> PyStr(input_data),
                                   error_type |-> err])
              ELSE passed

\* the rate printed by generate_report, as the fraction num/den of 100 * passed / total
SuccessRate(total, crashes) == [num |-> (total - crashes) * 100, den |-> total]

\* generate_report: the rate is computed for the console before the file is
\* opened; with test_count = 0 the division raises and nothing is written
GenerateReport ==
  /\ report_calls' = report_calls + 1
  /\ IF test_count = 0
       THEN /\ raising' = "ZeroDivisionError"
            /\ UNCHANGED report
       ELSE /\ raising' = NoError
            /\ report' = <<[tests |-> test_count, crashes |-> crash_count,
                            rate |-> SuccessRate(test_count, crash_count),
                            bugs |-> bugs_found]>>

ReporterInit ==
  /\ test_count = 0
  /\ crash_count = 0
  /\ bugs_found = <<>>
  /\ report = <<>>
  /\ log_calls = 0
  /\ last_logged = "None"
  /\ last_len = 0
  /\ report_calls = 0

NoCounts == [py |-> 0, other |-> 0, ipynb |-> 0]

IdleLocals ==
  /\ code = <<>>
  /\ args = <<>>
  /\ name_to_track = Unbound
  /\ counts = NoCounts
  /\ result = VNone
  /\ expected = -1
  /\ error = NoError

(***************************************************************************)
(* A FuzzReporter used through its two methods.                            *)
(***************************************************************************)
ApiMethods == {"days_between"}

ApiInputLens == {0, MaxRender - 1, MaxRender, MaxRender + 1, MaxRender + ExtraInputLen}

ApiInputs == {VStr(RandomText(n)) : n \in ApiInputLens} \cup {VNone, VInt(BadName)}

InitReporter ==
  /\ ReporterInit
  /\ IdleLocals
  /\ pc = "api"
  /\ camp = 0
  /\ i = 0
  /\ iterations = 0
  /\ raising = NoError
  /\ exit_status = -1
  /\ held = 0
  /\ called = <<>>
  /\ faults = 0
  /\ edge_logged = [c \in 1..NumCampaigns |-> 0]
  /\ argv = <<>>
  /\ modules = "loaded"
  /\ chosen = Unbound
  /\ passed = <<>>

ApiLogTest ==
  /\ pc = "api"
  /\ log_calls < MaxApiTests
  /\ \E m \in ApiMethods, d \in ApiInputs, e \in TargetErrors \cup {NoError} :
       LogTest(m, d, e) /\ Handed(m, d, e)
  /\ raising' = NoError
  /\ UNCHANGED <<process, chosen>>
  /\ UNCHANGED <<report, pc, camp, i, iterations, locals, exit_status, held,
                 called, faults, edge_logged, report_calls>>

ApiGenerateReport ==
  /\ pc = "api"
  /\ report_calls < MaxApiReports
  /\ GenerateReport
  /\ UNCHANGED <<process, chosen, passed>>
  /\ UNCHANGED <<reporter, pc, camp, i, iterations, locals, exit_status, held,
                 called, faults, edge_logged>>

NextReporter == ApiLogTest \/ ApiGenerateReport

SpecReporter == InitReporter /\ [][NextReporter]_vars

(***************************************************************************)
(* The campaigns: 1 parse, 2 logging pattern, 3 date delta, 4 file count,  *)
(* 5 data load.                                                            *)
(***************************************************************************)
Campaigns == 1..NumCampaigns

\* the method_name each fuzz_* method passes to log_test
Method(c) == CASE c = 1 -> "getPythonParseObject"
               [] c = 2 -> "checkLoggingPerData"
               [] c = 3 -> "days_between"
               [] c = 4 -> "getPythonFileCount"
               [] c = 5 -> "getDataLoadCount"

\* the campaigns whose random iterations create a temporary file or directory
Acquires(c) == c \in {1, 2, 4, 5}

\* lengths generate_random_string() draws: the two ends of randint(0, 100)
RandLens == {0, MaxRandLen}

\* samples of generate_random_python_code(): a fixed template, random text
PythonCode == {CodeValid} \cup {RandomText(n) : n \in {MaxRandLen}}

\* samples of the code each campaign writes to its temporary file
CodeChoices(c) == CASE c = 1 -> PythonCode
                    [] c = 2 -> {CodeLogger, <<>>} \cup PythonCode
                    [] c = 5 -> {CodeLoader} \cup PythonCode

\* the six names to track of fuzz_checkLoggingPerData
NameChoices == {VStr(S_data), VStr(S_test_var), VStr(RandomText(NameLen)),
                VStr(<<>>), VNone, VInt(BadName)}

\* '/nonexistent/' + generate_random_string() + '.py'
FakeFiles == {VStr(S_nonexistent \o RandomText(n) \o S_py) : n \in RandLens}

\* edge_cases of fuzz_days_between
DateEdgeCases ==
  << <<VNone, VNone>>,
     <<VDate(NowText), VNone>>,
     <<VNone, VDate(NowText)>>,
     <<VStr(S_2020), VStr(S_2021)>>,
     <<VInt(BadName), VInt(456)>>,
     <<VList, VDict>>,
     <<VDate(S_date1900), VDate(S_date2100)>>,
     <<VDate(NowText), VDate(NowText)>> >>

\* invalid_dirs of fuzz_getPythonFileCount; the fourth entry is random text
InvalidDirs(n) ==
  << VStr(S_nodir), VStr(<<>>), VNone, VStr(RandomText(n)), VStr(S_etc),
     VStr(S_devnull) >>

\* the number of edge cases each campaign runs after its random iterations
EdgeCorpusSize(c) == CASE c = 1 -> NumFakeFiles
                       [] c = 2 -> 0
                       [] c = 3 -> Len(DateEdgeCases)
                       [] c = 4 -> Len(InvalidDirs(0))
                       [] c = 5 -> NumFakeFiles

\* the arguments edge case k (from 0) of campaign c may be called with
EdgeArgs(c, k) == CASE c \in {1, 5} -> {<<f>> : f \in FakeFiles}
                    [] c = 3 -> {DateEdgeCases[k + 1]}
                    [] c = 4 -> {<<InvalidDirs(n)[k + 1]>> : n \in RandLens}
                    [] OTHER -> {}

\* a loop that stops one element before the end of range(n)
LoopDone_StopsEarly(k, n) == k + 1 >= n

\* `for k in range(n)` has no further element
LoopDone(k, n) == k >= n

\* an expected count that takes in the non-matching files
ExpectedCount_AllFiles(p, q, r) == p + q + r

\* expected = num_py_files + num_ipynb
ExpectedCount(p, q, r) == p + r

\* the directories populated in a random iteration of the file-count campaign
CountChoices == {[py |-> p, other |-> q, ipynb |-> r] :
                   p \in {0, 3, MaxPyFiles}, q \in {0, 2, MaxOtherFiles},
                   r \in {0, 1, MaxIpynb}}

\* what the external counter may return for a populated directory
CountResults(k) == {ExpectedCount(k.py, k.other, k.ipynb), k.py + k.other + k.ipynb + 1}

(***************************************************************************)
(* The f-strings passed to log_test as input_data.                         *)
(***************************************************************************)
\* in the try body of a random iteration
OkLabel(c) ==
  CASE c = 1 -> S_file \o PyStr(args[1]) \o S_content \o Slice(code, CodeSlice)
    [] c = 2 -> S_name \o PyStr(name_to_track) \o S_code \o Slice(code, CodeSlice)
    [] c = 3 -> S_d1 \o PyStr(args[1]) \o S_d2 \o PyStr(args[2])
    [] c = 4 -> S_dir \o PyStr(args[1]) \o S_py_files \o IntText(counts.py)
                  \o S_ipynb \o IntText(counts.ipynb)
                  \o S_expected \o IntText(expected) \o S_got \o PyStr(result)
    [] c = 5 -> S_file \o PyStr(args[1]) \o S_code \o Slice(code, CodeSlice)

\* in the except handler of a random iteration
ExcLabel(c) == IF c = 4 THEN S_dir \o PyStr(args[1]) ELSE OkLabel(c)

\* for an edge case
EdgeLabel(c) ==
  CASE c \in {1, 5} -> S_file \o PyStr(args[1])
    [] c = 3 -> S_d1 \o PyStr(args[1]) \o S_d2 \o PyStr(args[2])
    [] c = 4 -> S_dir \o PyStr(args[1])

\* building ExcLabel reads name_to_track, which only the try body assigns
HandlerRaises(c) == c = 2 /\ name_to_track = Unbound

\* cleanup in the try body only: a failed iteration skips it
AfterLog_SkipsFinally(c, failed) == IF Acquires(c) /\ ~failed THEN "finally" ELSE "loop"

\* where a random iteration goes once its outcome is logged: the campaigns
\* that hold a temporary resource run their finally clause
AfterLog(c, failed) == IF Acquires(c) THEN "finally" ELSE "loop"

(***************************************************************************)
(* run_all_fuzzing and the fuzz_* methods.                                 *)
(***************************************************************************)
IterCounts == {0 - 1} \cup (0..MaxIter)

Init ==
  /\ ReporterInit
  /\ IdleLocals
  /\ pc = "run_all"
  /\ camp = 0
  /\ i = 0
  /\ iterations \in IterCounts
  /\ raising = NoError
  /\ exit_status = -1
  /\ held = 0
  /\ called = <<>>
  /\ faults = 0
  /\ edge_logged = [c \in Campaigns |-> 0]
  /\ argv = <<IntText(iterations)>>
  /\ modules = "loaded"
  /\ chosen = Unbound
  /\ passed = <<>>

history == <<held, called, faults, edge_logged>>

\* dead locals are cleared between iterations; name_to_track is not dead
ClearLocals ==
  /\ code' = <<>>
  /\ args' = <<>>
  /\ counts' = NoCounts
  /\ result' = VNone
  /\ expected' = -1
  /\ error' = NoError

RunAll ==
  /\ pc = "run_all"
  /\ pc' = "loop"
  /\ camp' = 1
  /\ i' = 0
  /\ UNCHANGED <<process, chosen, passed>>
  /\ UNCHANGED <<reporter, report, report_calls, iterations, locals, raising,
                 exit_status, history>>

\* create_temp_python_file(code) before the try
GenerateFile ==
  /\ pc = "loop"
  /\ camp \in {1, 2, 5}
  /\ ~LoopDone(i, iterations)
  /\ code' \in CodeChoices(camp)
  /\ chosen' = Unbound
  /\ args' = <<VStr(TempFileName)>>
  /\ held' = held + 1
  /\ called' = <<>>
  /\ pc' = "try"
  /\ UNCHANGED <<process, passed>>
  /\ UNCHANGED <<reporter, report, report_calls, camp, i, iterations,
                 name_to_track, counts, result, expected, error, raising,
                 exit_status, faults, edge_logged>>

\* d1, d2 = generate_random_date()
GenerateDates ==
  /\ pc = "loop"
  /\ camp = 3
  /\ ~LoopDone(i, iterations)
  /\ args' = <<VDate(DateText), VDate(DateText)>>
  /\ called' = <<>>
  /\ pc' = "try"
  /\ UNCHANGED <<process, chosen, passed>>
  /\ UNCHANGED <<reporter, report, report_calls, camp, i, iterations, code,
                 name_to_track, counts, result, expected, error, raising,
                 exit_status, held, faults, edge_logged>>

\* temp_dir = tempfile.mkdtemp() before the try
MakeTempDir ==
  /\ pc = "loop"
  /\ camp = 4
  /\ ~LoopDone(i, iterations)
  /\ args' = <<VStr(TempDirName)>>
  /\ held' = held + 1
  /\ called' = <<>>
  /\ pc' = "try"
  /\ UNCHANGED <<process, chosen, passed>>
  /\ UNCHANGED <<reporter, report, report_calls, camp, i, iterations, code,
                 name_to_track, counts, result, expected, error, raising,
                 exit_status, faults, edge_logged>>

\* the random loop is over: on to the edge cases
EndRandom ==
  /\ pc = "loop"
  /\ LoopDone(i, iterations)
  /\ pc' = "edge"
  /\ i' = 0
  /\ UNCHANGED <<process, chosen, passed>>
  /\ UNCHANGED <<reporter, report, report_calls, camp, iterations, locals,
                 raising, exit_status, history>>

\* the outcome of one call of an external operation
Returns(value, to) ==
  /\ result' = value
  /\ pc' = to
  /\ UNCHANGED <<error, faults>>

\* exceptions the targets may raise in a run of n iterations: a run longer
\* than MaxIter is explored with a single failure
FaultBudget(n) == IF n <= MaxIter THEN MaxFaults ELSE 1

Raises(e, to) ==
  /\ faults < FaultBudget(iterations)
  /\ error' = e
  /\ faults' = faults + 1
  /\ pc' = to
  /\ UNCHANGED result

\* getPythonParseObject, days_between or getDataLoadCount in a random iteration
CallTarget ==
  /\ pc = "try"
  /\ camp \in {1, 3, 5}
  /\ called' = Append(called, Method(camp))
  /\ \/ Returns(VNone, "ok")
     \/ \E e \in TargetErrors : Raises(e, "exc")
  /\ UNCHANGED <<process, chosen, passed>>
  /\ UNCHANGED <<reporter, report, report_calls, camp, i, iterations, code,
                 args, name_to_track, counts, expected, raising, exit_status,
                 held, edge_logged>>

\* tree = py_parser.getPythonParseObject(temp_file) of the logging campaign
CallParser ==
  /\ pc = "try"
  /\ camp = 2
  /\ called' = Append(called, "getPythonParseObject")
  /\ \/ Returns(VNone, "parsed")
     \/ \E e \in TargetErrors : Raises(e, "exc")
  /\ UNCHANGED <<process, chosen, passed>>
  /\ UNCHANGED <<reporter, report, report_calls, camp, i, iterations, code,
                 args, name_to_track, counts, expected, raising, exit_status,
                 held, edge_logged>>

\* name_to_track = random.choice(...); checkLoggingPerData(tree, name_to_track)
CallChecker ==
  /\ pc = "parsed"
  /\ name_to_track' \in NameChoices
  /\ chosen' = name_to_track'
  /\ called' = Append(called, "checkLoggingPerData")
  /\ \/ Returns(VNone, "ok")
     \/ \E e \in TargetErrors : Raises(e, "exc")
  /\ UNCHANGED <<process, passed>>
  /\ UNCHANGED <<reporter, report, report_calls, camp, i, iterations, code,
                 args, counts, expected, raising, exit_status, held,
                 edge_logged>>

\* populate temp_dir, call getPythonFileCount, compute expected
CallCounter ==
  /\ pc = "try"
  /\ camp = 4
  /\ counts' \in CountChoices
  /\ called' = Append(called, "getPythonFileCount")
  /\ \/ \E k \in CountResults(counts') :
          /\ Returns(VInt(k), "ok")
          /\ expected' = ExpectedCount(counts'.py, counts'.other, counts'.ipynb)
     \/ \E e \in TargetErrors : Raises(e, "exc") /\ UNCHANGED expected
  /\ UNCHANGED <<process, chosen, passed>>
  /\ UNCHANGED <<reporter, report, report_calls, camp, i, iterations, code,
                 args, name_to_track, raising, exit_status, held, edge_logged>>

\* the next iteration of the random loop
NextIteration ==
  /\ i' = i + 1
  /\ ClearLocals

\* what follows log_test in a random iteration
Logged(failed) ==
  /\ pc' = AfterLog(camp, failed)
  /\ IF pc' = "loop"
       THEN NextIteration
       ELSE UNCHANGED <<i, code, args, counts, result, expected, error>>

\* log_test(..., result) at the end of the try body
LogSuccess ==
  /\ pc = "ok"
  /\ LogTest(Method(camp), VStr(OkLabel(camp)), NoError)
  /\ Logged(FALSE)
  /\ UNCHANGED <<process, chosen, passed>>
  /\ UNCHANGED <<report, report_calls, camp, iterations, name_to_track,
                 raising, exit_status, history>>

\* log_test(..., None, e) in the except handler
LogFailure ==
  /\ pc = "exc"
  /\ ~HandlerRaises(camp)
  /\ LogTest(Method(camp), VStr(ExcLabel(camp)), error)
  /\ Handed(Method(camp), VStr(ExcLabel(camp)), error)
  /\ Logged(TRUE)
  /\ UNCHANGED <<process, chosen>>
  /\ UNCHANGED <<report, report_calls, camp, iterations, name_to_track,
                 raising, exit_status, history>>

\* the except handler itself raises while building its f-string
HandlerFails ==
  /\ pc = "exc"
  /\ HandlerRaises(camp)
  /\ raising' = "UnboundLocalError"
  /\ pc' = "finally"
  /\ UNCHANGED <<process, chosen, passed>>
  /\ UNCHANGED <<reporter, report, report_calls, camp, i, iterations, locals,
                 exit_status, history>>

\* finally: os.unlink / shutil.rmtree, its own errors swallowed
Release ==
  /\ pc = "finally"
  /\ held' = held - 1
  /\ IF raising # NoError
       THEN /\ pc' = "uncaught"
            /\ UNCHANGED <<i, code, args, counts, result, expected, error>>
       ELSE /\ pc' = "loop"
            /\ NextIteration
  /\ UNCHANGED <<process, chosen, passed>>
  /\ UNCHANGED <<reporter, report, report_calls, camp, iterations,
                 name_to_track, raising, exit_status, called, faults,
                 edge_logged>>

\* one edge case: the call
CallEdge ==
  /\ pc = "edge"
  /\ ~LoopDone(i, EdgeCorpusSize(camp))
  /\ args' \in EdgeArgs(camp, i)
  /\ called' = <<Method(camp)>>
  /\ \/ Returns(VNone, "edge_ok")
     \/ \E e \in TargetErrors : Raises(e, "edge_exc")
  /\ UNCHANGED <<process, chosen, passed>>
  /\ UNCHANGED <<reporter, report, report_calls, camp, i, iterations, code,
                 name_to_track, counts, expected, raising, exit_status, held,
                 edge_logged>>

\* one edge case: log_test in the try body or in the handler
LogEdge ==
  /\ pc \in {"edge_ok", "edge_exc"}
  /\ LogTest(Method(camp), VStr(EdgeLabel(camp)),
             IF pc = "edge_exc" THEN error ELSE NoError)
  /\ Handed(Method(camp), VStr(EdgeLabel(camp)),
            IF pc = "edge_exc" THEN error ELSE NoError)
  /\ edge_logged' = [edge_logged EXCEPT ![camp] = @ + 1]
  /\ pc' = "edge"
  /\ NextIteration
  /\ UNCHANGED <<process, chosen>>
  /\ UNCHANGED <<report, report_calls, camp, iterations, name_to_track,
                 raising, exit_status, held, called, faults>>

\* the fuzz_* method returns; run_all_fuzzing calls the next one
EndCampaign ==
  /\ pc = "edge"
  /\ LoopDone(i, EdgeCorpusSize(camp))
  /\ i' = 0
  /\ name_to_track' = Unbound
  /\ chosen' = Unbound
  /\ IF camp < NumCampaigns
       THEN pc' = "loop" /\ camp' = camp + 1
       ELSE pc' = "complete" /\ UNCHANGED camp
  /\ UNCHANGED <<process, passed>>
  /\ UNCHANGED <<reporter, report, report_calls, iterations, code, args,
                 counts, result, expected, error, raising, exit_status,
                 history>>

\* self.reporter.generate_report() at the end of run_all_fuzzing
Report ==
  /\ pc = "complete"
  /\ GenerateReport
  /\ pc' = IF raising' # NoError THEN "uncaught" ELSE "exit"
  /\ UNCHANGED <<process, chosen, passed>>
  /\ UNCHANGED <<reporter, camp, i, iterations, locals, exit_status, history>>

\* main: sys.exit(1) if crash_count > 0 else sys.exit(0)
Exit ==
  /\ pc = "exit"
  /\ exit_status' = IF crash_count > 0 THEN 1 ELSE 0
  /\ pc' = "done"
  /\ UNCHANGED <<process, chosen, passed>>
  /\ UNCHANGED <<reporter, report, report_calls, camp, i, iterations, locals,
                 raising, history>>

\* an exception leaves main: the interpreter prints it and exits with 1
Uncaught ==
  /\ pc = "uncaught"
  /\ exit_status' = 1
  /\ pc' = "done"
  /\ UNCHANGED <<process, chosen, passed>>
  /\ UNCHANGED <<reporter, report, report_calls, camp, i, iterations, locals,
                 raising, history>>

Next ==
  \/ RunAll
  \/ GenerateFile
  \/ GenerateDates
  \/ MakeTempDir
  \/ EndRandom
  \/ CallTarget
  \/ CallParser
  \/ CallChecker
  \/ CallCounter
  \/ LogSuccess
  \/ LogFailure
  \/ HandlerFails
  \/ Release
  \/ CallEdge
  \/ LogEdge
  \/ EndCampaign
  \/ Report
  \/ Exit
  \/ Uncaught

Spec == Init /\ [][Next]_vars

(***************************************************************************)
(* The process from its start: the import guard and main.                  *)
(***************************************************************************)
\* iterations = 20
DefaultIterations == 20

S_abc == <<"a", "b", "c">>
S_2_5 == <<"2", ".", "5">>

IsDigit(ch) == ch \in {"0", "1", "2", "3", "4", "5", "6", "7", "8", "9"}

DigitValue(ch) == CASE ch = "0" -> 0 [] ch = "1" -> 1 [] ch = "2" -> 2 [] ch = "3" -> 3
                    [] ch = "4" -> 4 [] ch = "5" -> 5 [] ch = "6" -> 6 [] ch = "7" -> 7
                    [] ch = "8" -> 8 [] ch = "9" -> 9

\* the text after an optional sign
Unsigned(s) == IF s # <<>> /\ s[1] \in {"+", "-"} THEN Tail(s) ELSE s

\* int(s) returns: an optional sign and one or more digits (int also takes
\* blanks around the number and single underscores between digits)
IsIntText(s) == Unsigned(s) # <<>> /\ \A k \in DOMAIN Unsigned(s) : IsDigit(Unsigned(s)[k])

RECURSIVE DigitsValue(_)
DigitsValue(s) ==
  IF s = <<>> THEN 0
  ELSE 10 * DigitsValue(SubSeq(s, 1, Len(s) - 1)) + DigitValue(s[Len(s)])

\* int(s) where it returns
PyInt(s) == IF s[1] = "-" THEN 0 - DigitsValue(Unsigned(s)) ELSE DigitsValue(Unsigned(s))

\* a main that lets the ValueError of int() go
ChosenIterations_NoFallback(a) ==
  IF Len(a) > 0 /\ IsIntText(a[1]) THEN PyInt(a[1]) ELSE 0

\* main: the default, or int(sys.argv[1]) unless it raises ValueError
ChosenIterations(a) ==
  IF Len(a) > 0 /\ IsIntText(a[1]) THEN PyInt(a[1]) ELSE DefaultIterations

\* the command lines explored: no argument, text that starts with a digit
\* and is no integer, the iteration counts of the model, and an argument
\* followed by another
ArgvChoices ==
  {<<>>, <<S_2_5>>}
    \cup {<<IntText(n)>> : n \in IterCounts}
    \cup {<<IntText(0), S_abc>>}

InitMain ==
  /\ ReporterInit
  /\ IdleLocals
  /\ pc = "import"
  /\ camp = 0
  /\ i = 0
  /\ iterations = 0
  /\ raising = NoError
  /\ exit_status = -1
  /\ held = 0
  /\ called = <<>>
  /\ faults = 0
  /\ edge_logged = [c \in Campaigns |-> 0]
  /\ argv \in ArgvChoices
  /\ modules = "unresolved"
  /\ chosen = Unbound
  /\ passed = <<>>

\* import py_parser, lint_engine, mining succeeds
ImportTargets ==
  /\ pc = "import"
  /\ modules' = "loaded"
  /\ pc' = "main"
  /\ UNCHANGED <<reporter, report, report_calls, camp, i, iterations, locals,
                 raising, exit_status, history, argv, chosen, passed>>

\* a failed import that is reported and then ignored
ImportFails_GoesOn ==
  /\ pc = "import"
  /\ modules' = "missing"
  /\ pc' = "main"
  /\ UNCHANGED <<reporter, report, report_calls, camp, i, iterations, locals,
                 raising, exit_status, history, argv, chosen, passed>>

\* except ImportError: print and sys.exit(1)
ImportFails ==
  /\ pc = "import"
  /\ modules' = "missing"
  /\ exit_status' = 1
  /\ pc' = "done"
  /\ UNCHANGED <<reporter, report, report_calls, camp, i, iterations, locals,
                 raising, history, argv, chosen, passed>>

\* main up to Fuzzer(): the iteration count from the command line
ParseArgs ==
  /\ pc = "main"
  /\ iterations' = ChosenIterations(argv)
  /\ pc' = "run_all"
  /\ UNCHANGED <<reporter, report, report_calls, camp, i, locals, raising,
                 exit_status, history, process, chosen, passed>>

NextMain ==
  \/ ImportTargets
  \/ ImportFails
  \/ ParseArgs
  \/ Next

SpecMain == InitMain /\ [][NextMain]_vars

(***************************************************************************)
(* Properties.                                                             *)
(***************************************************************************)
\* the places between two invocations
Between == {"run_all", "loop", "edge", "complete", "exit", "done"}

\* how often x occurs in seq
Count(seq, x) == Cardinality({k \in DOMAIN seq : seq[k] = x})

\* this step is a call of log_test
LogStep == log_calls' = log_calls + 1

\* C1: a failure raised by a target operation is caught and recorded as a
\* failed outcome and the campaign goes on: no exception ever propagates out
\* of a fuzz_* method, and between two invocations every exception the
\* targets raised has been logged as a crash.
C1_FaultIsolation ==
  /\ raising = NoError
  /\ pc # "uncaught"
  /\ pc \in Between => crash_count = faults

\* C2: 0 <= crash_count <= test_count in every state; a call of log_test adds
\* exactly one to test_count and zero or one to crash_count; no step that is
\* not a call of log_test changes either counter, so neither ever decreases.
C2_CounterInvariant ==
  /\ [](0 <= crash_count /\ crash_count <= test_count)
  /\ [][/\ LogStep => /\ test_count' = test_count + 1
                      /\ crash_count' \in {crash_count, crash_count + 1}
        /\ ~LogStep => UNCHANGED <<test_count, crash_count>>]_vars

\* a failure has been logged after earlier successes
C2_Witness == crash_count = 1 /\ test_count > 1 /\ log_calls = test_count

\* C3 as claimed: at the report test_count = 5 * N + 24 for every N.
C3_TotalAsClaimed ==
  pc = "complete" => test_count = 5 * iterations + 24

\* C3 as amended: at the report test_count = 5 * max(N, 0) + 24: a negative
\* iteration count runs no random iteration.
C3_TotalAtReport ==
  /\ pc = "complete" => test_count = 5 * Max(iterations, 0) + 24
  /\ report # <<>> => report[1].tests = 5 * Max(iterations, 0) + 24

\* the report is reached after random iterations and a logged failure
C3_Witness ==
  pc = "exit" /\ iterations >= 2 /\ crash_count = 1 /\ report # <<>>

\* C4: generate_report never raises ZeroDivisionError, and a rate it computes
\* lies in [0, 100].
C4_RateDefined ==
  /\ raising # "ZeroDivisionError"
  /\ report # <<>> =>
       /\ 0 <= report[1].rate.num
       /\ report[1].rate.num <= 100 * report[1].rate.den

\* C5: the process exits with 0 exactly when no failure was logged, with 1
\* when one was, and the status is decided after the report was generated.
C5_ExitStatus ==
  pc = "done" =>
    /\ exit_status = 0 <=> crash_count = 0
    /\ crash_count > 0 => exit_status = 1
    /\ report_calls = 1

\* C6: at most one temporary resource is held at a time (the previous one is
\* released before the next is created), and none is held between two
\* invocations, at the end of a campaign or once an exception has left the
\* method, whether the invocation succeeded or failed.
C6_Released ==
  /\ held \in {0, 1}
  /\ pc \in Between \cup {"edge_ok", "edge_exc", "uncaught"} => held = 0

\* the resource of a failed file-count iteration has been released
C6_Witness ==
  /\ pc = "loop"
  /\ camp = 4
  /\ i = 1
  /\ held = 0
  /\ last_logged = "getPythonFileCount"
  /\ Len(bugs_found) = 1
  /\ bugs_found[1].method = "getPythonFileCount"

\* C7: when the run is over every campaign has logged exactly one outcome
\* per entry of its edge-case corpus.
C7_EdgeOutcomes ==
  pc = "done" => \A c \in Campaigns : edge_logged[c] = EdgeCorpusSize(c)

\* C8: at every call of log_test the target operation the outcome is named
\* after has been called exactly once for the current input.
C8_CalledOnce ==
  [][LogStep => Count(called, last_logged') = 1]_vars

\* C9: in the file-count campaign the expected count is p + r whatever q is;
\* a returned count that differs from it is logged as a success (test_count
\* plus one, crash_count and bugs_found unchanged) and the iteration goes on
\* to its cleanup without an exception.
C9_ExpectedCount ==
  /\ [](pc = "ok" /\ camp = 4 => expected = counts.py + counts.ipynb)
  /\ [][pc = "ok" /\ camp = 4 /\ result.n # counts.py + counts.ipynb =>
          /\ test_count' = test_count + 1
          /\ UNCHANGED <<crash_count, bugs_found>>
          /\ pc' = "finally"
          /\ raising' = NoError]_vars

\* 3 source files, 2 other files, 1 notebook: expected 4, the counter
\* returned 7, and the outcome was logged as a success
C9_Witness ==
  /\ pc = "finally"
  /\ camp = 4
  /\ counts = [py |-> 3, other |-> 2, ipynb |-> 1]
  /\ expected = 4
  /\ result = VInt(7)
  /\ last_logged = "getPythonFileCount"
  /\ crash_count = 0

\* C10: the input rendering of every bug record is at most 100 characters.
C10_BoundedRendering ==
  \A k \in DOMAIN bugs_found : Len(bugs_found[k].input) <= 100

\* the latest failed outcome had an input longer than 100 characters
C10_Witness ==
  /\ bugs_found # <<>>
  /\ crash_count = log_calls
  /\ last_len > 100
  /\ Len(bugs_found[Len(bugs_found)].input) = 100

\* the iteration count a command line asks for: the count whose text its
\* first argument is, the default when it is the text of none
AskedFor(a) ==
  IF \E n \in IterCounts : Len(a) > 0 /\ a[1] = IntText(n)
    THEN CHOOSE n \in IterCounts : a[1] = IntText(n)
    ELSE DefaultIterations

\* C11: a missing or non-numeric argument does not end the process: main
\* goes on to run_all_fuzzing with 20 iterations, a numeric argument is
\* passed on as given, and every random loop that ends has run exactly that
\* many iterations (none when the count is negative).
C11_CommandSurface ==
  /\ [](pc \notin {"import", "main"} /\ modules = "loaded" =>
          iterations = AskedFor(argv))
  /\ [][pc = "main" => pc' = "run_all" /\ raising' = NoError /\ exit_status' = -1]_vars
  /\ [][pc = "loop" /\ pc' = "edge" => i = Max(AskedFor(argv), 0)]_vars

\* text that is no number was given and the data-load campaign has run its
\* 20 random iterations
C11_Witness ==
  /\ argv = <<S_2_5>>
  /\ pc = "edge"
  /\ camp = 5
  /\ i = 0
  /\ iterations = 20
  /\ test_count = 5 * 20 + 19

\* C12: once the import of the targets has failed the process has exited
\* with a non-zero status, no campaign has started, no target was called,
\* no outcome was logged and no report was generated or written.
C12_StartupFailure ==
  modules = "missing" =>
    /\ pc = "done"
    /\ exit_status = 1
    /\ camp = 0
    /\ called = <<>>
    /\ faults = 0
    /\ log_calls = 0
    /\ test_count = 0
    /\ report_calls = 0
    /\ report = <<>>

\* the import failed and the process is over
C12_Witness == modules = "missing" /\ pc = "done" /\ exit_status = 1

\* s starts with p
StartsWith(s, p) == Len(p) <= Len(s) /\ SubSeq(s, 1, Len(p)) = p

\* C13: bugs_found holds one record for every call of log_test that carried
\* an exception, in the order of the calls, with the method, the exception
\* type and the beginning of the input of that call; its length is
\* crash_count; a step only appends to it and leaves the entries it has.
C13_BugList ==
  /\ [](/\ Len(bugs_found) = crash_count
        /\ Len(bugs_found) = Len(passed)
        /\ \A k \in DOMAIN bugs_found :
             /\ bugs_found[k].method = passed[k].method
             /\ bugs_found[k].error_type = passed[k].error_type
             /\ StartsWith(passed[k].input, bugs_found[k].input))
  /\ [][StartsWith(bugs_found', bugs_found)]_vars

\* two different failures were logged, a success among the calls
C13_Witness ==
  /\ Len(bugs_found) = 2
  /\ bugs_found[1].input # bugs_found[2].input
  /\ test_count = 3

\* the places inside a random iteration
InRandom == {"loop", "try", "parsed", "ok", "exc", "finally"}

\* C14: the campaigns run in the order parse, logging pattern, date delta,
\* file count, data load, each with its random iterations before its edge
\* cases: while campaign c runs, the earlier campaigns have logged their
\* whole edge-case corpus, the later ones nothing, and the latest outcome is
\* of c or an earlier campaign.  generate_report is called only after the
\* last outcome is logged; when the process is over it has been called
\* exactly once, and the report of a run with a logged failure is written.
C14_OrderAndReport ==
  /\ camp \in Campaigns =>
       /\ \A d \in Campaigns :
            /\ d < camp => edge_logged[d] = EdgeCorpusSize(d)
            /\ d > camp => edge_logged[d] = 0
       /\ pc \in InRandom => edge_logged[camp] = 0
       /\ log_calls > 0 => \E d \in 1..camp : last_logged = Method(d)
  /\ report_calls > 0 => pc \in {"exit", "done"}
  /\ pc = "done" /\ modules = "loaded" =>
       /\ report_calls = 1
       /\ crash_count > 0 => report # <<>>

\* C15: every outcome the logging-pattern campaign logs shows the name to
\* track that was chosen in the iteration it is logged in.
C15_NoCarryOver ==
  [][LogStep /\ camp = 2 => name_to_track = chosen]_vars

====
